---------------------------- MODULE Spec2Model ----------------------------
(***************************************************************************)
(* Model of src/app.py: the student score visualizer.                      *)
(*                                                                         *)
(* One script run is modelled: the parsed table df is validated            *)
(* (validate_data), a column mapping is taken from the detector or from    *)
(* the manual column selection, the aggregation                            *)
(* (process_data_and_create_charts) walks the rows, and the main logic     *)
(* displays what the aggregation returned, or the error the except         *)
(* handler turns an exception into.                                        *)
(*                                                                         *)
(* Representation                                                          *)
(*   - a column name is a sequence of one-character strings, so that       *)
(*     .lower() and the substring test of validate_data are computed;      *)
(*   - a cell is a record [kind, num, str]: a null (NaN/None), a number,   *)
(*     or a text value that float() cannot coerce;                         *)
(*   - a quotient of two numbers is an exact fraction [num, den] in        *)
(*     lowest terms (the code computes it in floating point);              *)
(*   - a dict is a sequence of [key, value] entries in insertion order;    *)
(*   - None for data_format is the record NoFormat.                        *)
(* Chart rendering, download links and number formatting are not           *)
(* modelled: a chart keeps the subjects and scores its bars are drawn      *)
(* from.                                                                   *)
(***************************************************************************)
EXTENDS Integers, Sequences, FiniteSets, TLC

VARIABLES
    df,                 \* the parsed table: [columns, rows]
    pc,                 \* position of the script run
    errors,             \* errors returned by validate_data
    data_format,        \* the mapping in use, or NoFormat
    rowIdx,             \* rows of df the aggregation loop has consumed
    charts,             \* local `charts` of the aggregation
    student_summaries,  \* local `student_summaries` of the aggregation
    returned,           \* what the aggregation returned to the main logic
    out,                \* messages the run has put on the page, in order
    shown,              \* charts displayed one by one, in order
    summary_data,       \* rows of the overall summary table
    calls,              \* how many times the aggregation has been entered
    first               \* result of the first of two invocations

vars == <<df, pc, errors, data_format, rowIdx, charts, student_summaries,
          returned, out, shown, summary_data, calls, first>>

---------------------------------------------------------------------------
(* Bounds of the model *)

MaxRows == 2
MaxCols == 5

---------------------------------------------------------------------------
(* Cells *)

Null == [kind |-> "null", num |-> 0, str |-> ""]
Num(n) == [kind |-> "num", num |-> n, str |-> ""]
Str(s) == [kind |-> "str", num |-> 0, str |-> s]

\* pd.notna(cell)
notna(cell) == cell.kind # "null"

\* float that coerces a text value to 0 instead of raising
floatLenient(cell) ==
    [raised |-> FALSE, value |-> IF cell.kind = "num" THEN cell.num ELSE 0]

\* float(cell): a number is coerced, a text value raises ValueError
float(cell) ==
    IF cell.kind = "num"
    THEN [raised |-> FALSE, value |-> cell.num]
    ELSE [raised |-> TRUE, value |-> 0]

---------------------------------------------------------------------------
(* Column names and the header test of validate_data *)

UpperCase == <<"A","B","C","D","E","F","G","H","I","J","K","L","M",
               "N","O","P","Q","R","S","T","U","V","W","X","Y","Z">>
LowerCase == <<"a","b","c","d","e","f","g","h","i","j","k","l","m",
               "n","o","p","q","r","s","t","u","v","w","x","y","z">>

LowerChar(ch) ==
    IF \E i \in 1..26 : UpperCase[i] = ch
    THEN LowerCase[CHOOSE i \in 1..26 : UpperCase[i] = ch]
    ELSE ch

\* str.lower()
lower(name) == [i \in 1..Len(name) |-> LowerChar(name[i])]

\* term in text
Contains(term, text) ==
    \E i \in 0..(Len(text) - Len(term)) :
        SubSeq(text, i + 1, i + Len(term)) = term

pct_terms == << <<"p","e","r","c","e","n","t","a","g","e">>,
                <<"p","e","r","c","e","n","t">>,
                <<"%">> >>

\* any(term in percentage_col.lower() for term in pct_terms)
is_percentage_col(percentage_col) ==
    \E t \in 1..Len(pct_terms) : Contains(pct_terms[t], lower(percentage_col))

---------------------------------------------------------------------------
(* validate_data *)

NoFormat == [format |-> "none", student_col |-> <<>>,
             subject_percentage_pairs |-> <<>>]

PairedFormat(student_col, pairs) ==
    [format |-> "paired", student_col |-> student_col,
     subject_percentage_pairs |-> pairs]

\* df.empty: true when either axis has length zero
IsEmpty(table) == Len(table.rows) = 0 \/ Len(table.columns) = 0

RECURSIVE PotentialPairsGated(_, _)
\* the loop, keeping a pair only when its header looks like a percentage
PotentialPairsGated(columns, i) ==
    IF i >= Len(columns)
    THEN <<>>
    ELSE (IF i + 1 < Len(columns) /\ is_percentage_col(columns[i + 2])
          THEN << [subject_col    |-> columns[i + 1],
                   percentage_col |-> columns[i + 2],
                   is_pct         |-> TRUE] >>
          ELSE <<>>)
         \o PotentialPairsGated(columns, i + 2)

RECURSIVE PotentialPairs(_, _)
\* the loop `for i in range(1, len(df.columns), 2)`; i is the 0-based index
PotentialPairs(columns, i) ==
    IF i >= Len(columns)
    THEN <<>>
    ELSE (IF i + 1 < Len(columns)
          THEN << [subject_col    |-> columns[i + 1],
                   percentage_col |-> columns[i + 2],
                   is_pct         |-> is_percentage_col(columns[i + 2])] >>
          ELSE <<>>)
         \o PotentialPairs(columns, i + 2)

\* validate_data with the column count tested before the emptiness
validate_dataColumnsFirst(table) ==
    IF Len(table.columns) < 3
    THEN [errors |-> <<"InsufficientColumns">>, data_format |-> NoFormat]
    ELSE IF IsEmpty(table)
    THEN [errors |-> <<"EmptyTable">>, data_format |-> NoFormat]
    ELSE [errors |-> <<>>,
          data_format |-> PairedFormat(table.columns[1],
                                       PotentialPairs(table.columns, 1))]

validate_data(table) ==
    IF IsEmpty(table)
    THEN [errors |-> <<"EmptyTable">>, data_format |-> NoFormat]
    ELSE IF Len(table.columns) < 3
    THEN [errors |-> <<"InsufficientColumns">>, data_format |-> NoFormat]
    ELSE LET potential_pairs == PotentialPairs(table.columns, 1)
         IN  IF potential_pairs # <<>>
             THEN [errors |-> <<>>,
                   data_format |-> PairedFormat(table.columns[1], potential_pairs)]
             ELSE [errors |-> <<"IndeterminateSchema">>, data_format |-> NoFormat]


---------------------------------------------------------------------------
(* Manual column selection (main logic, `if data_format is None`) *)

MaxManualColumns == 10

Min(a, b) == IF a < b THEN a ELSE b

\* a list of candidates that keeps the excluded column
WithoutNothing(columns, excluded) == columns

\* [col for col in columns if col != excluded]
Without(columns, excluded) == SelectSeq(columns, LAMBDA col : col # excluded)

SeqToSet(s) == {s[i] : i \in 1..Len(s)}

\* the values i of `range(0, min(len(potential_columns), 10), 2)` for which
\* a percentage selectbox is created (`if i+1 < len(potential_columns)`)
ManualPairSlots(n) ==
    {i \in 0..(Min(n, MaxManualColumns) - 1) : i % 2 = 0 /\ i + 1 < n}

\* the percentage selectbox of slot i is given n - 1 options (the potential
\* columns but the chosen subject column) and index=min(i+1, n-1); streamlit
\* raises StreamlitAPIException for an index outside its options
SelectboxIndexValid(i, n) == Min(i + 1, n - 1) < n - 1

---------------------------------------------------------------------------
(* process_data_and_create_charts *)

\* row[col]: columns of a parsed table carry distinct names
ColIndex(columns, col) == CHOOSE i \in 1..Len(columns) : columns[i] = col

RowGet(columns, row, col) == row[ColIndex(columns, col)]

RECURSIVE Sum(_)
\* sum(scores)
Sum(scores) ==
    IF scores = <<>> THEN 0 ELSE scores[1] + Sum(Tail(scores))

RECURSIVE GCD(_, _)
GCD(a, b) == IF b = 0 THEN a ELSE GCD(b, a % b)

Abs(a) == IF a < 0 THEN -a ELSE a

\* a / b for b > 0, as an exact fraction in lowest terms
Divide(a, b) ==
    LET g == GCD(Abs(a), b)
    IN  [num |-> a \div g, den |-> b \div g]

\* q * k
Times(q, k) == Divide(q.num * k, q.den)

Zero == [num |-> 0, den |-> 1]

NoLists == [raised |-> FALSE, subjects |-> <<>>, scores |-> <<>>]

\* an exception leaves the frame: its lists are reachable from nowhere
Raised == [raised |-> TRUE, subjects |-> <<>>, scores |-> <<>>]

\* the iteration, zero-filling a pair whose percentage cell is null
ExtractPairZeroFill(columns, row, pair, acc) ==
    IF notna(RowGet(columns, row, pair.subject_col))
    THEN LET cell == RowGet(columns, row, pair.percentage_col)
             f    == IF notna(cell) THEN float(cell)
                     ELSE [raised |-> FALSE, value |-> 0]
         IN  IF f.raised
             THEN Raised
             ELSE [raised   |-> FALSE,
                   subjects |-> Append(acc.subjects, pair.subject_col),
                   scores   |-> Append(acc.scores, f.value)]
    ELSE acc

\* one iteration of `for subject_col, percentage_col, _ in pairs`
ExtractPair(columns, row, pair, acc) ==
    IF notna(RowGet(columns, row, pair.subject_col))
       /\ notna(RowGet(columns, row, pair.percentage_col))
    THEN LET f == float(RowGet(columns, row, pair.percentage_col))
         IN  IF f.raised
             THEN Raised
             ELSE [raised   |-> FALSE,
                   subjects |-> Append(acc.subjects, pair.subject_col),
                   scores   |-> Append(acc.scores, f.value)]
    ELSE acc

RECURSIVE ExtractPairs(_, _, _, _)
\* subjects and scores after the first k pairs of the mapping
ExtractPairs(columns, row, pairs, k) ==
    IF k = 0
    THEN NoLists
    ELSE LET acc == ExtractPairs(columns, row, pairs, k - 1)
         IN  IF acc.raised
             THEN acc
             ELSE ExtractPair(columns, row, pairs[k], acc)

\* the summary, its overall percentage left as a ratio
ComputeSummaryNoScale(subjects, scores) ==
    [average          |-> IF scores # <<>>
                          THEN Divide(Sum(scores), Len(scores)) ELSE Zero,
     total_achieved   |-> Sum(scores),
     total_possible   |-> 100 * Len(scores),
     total_percentage |-> IF Len(scores) > 0
                          THEN Divide(Sum(scores), 100 * Len(scores)) ELSE Zero,
     num_subjects     |-> Len(subjects)]

\* the summary of one student
ComputeSummary(subjects, scores) ==
    LET avg_score        == IF scores # <<>>
                            THEN Divide(Sum(scores), Len(scores))
                            ELSE Zero
        total_possible   == 100 * Len(scores)
        total_achieved   == Sum(scores)
        total_percentage == IF total_possible > 0
                            THEN Times(Divide(total_achieved, total_possible), 100)
                            ELSE Zero
    IN  [average          |-> avg_score,
         total_achieved   |-> total_achieved,
         total_possible   |-> total_possible,
         total_percentage |-> total_percentage,
         num_subjects     |-> Len(subjects)]

\* a loop that never skips a row
SkipRowNever(subjects) == FALSE

\* `if not subjects: continue`
SkipRow(subjects) == subjects = <<>>

\* a chart put in front of the list
EmitChartFront(chart_list, chart) == <<chart>> \o chart_list

\* charts.append(chart)
EmitChart(chart_list, chart) == Append(chart_list, chart)

\* a test that takes an empty list for a result
HasChartsAlways(chart_list) == TRUE

\* `if charts:` of the main logic
HasCharts(chart_list) == chart_list # <<>>

\* d[key] = value
DictSet(d, key, value) ==
    IF \E i \in 1..Len(d) : d[i].key = key
    THEN [i \in 1..Len(d) |->
             IF d[i].key = key THEN [key |-> key, value |-> value] ELSE d[i]]
    ELSE Append(d, [key |-> key, value |-> value])

\* d[key]
DictGet(d, key) == d[CHOOSE i \in 1..Len(d) : d[i].key = key].value

---------------------------------------------------------------------------
(* Input tables *)

HeaderPlain ==
    << <<"N","a","m","e">>, <<"C","h","e","m">>, <<"P","c","t">>,
       <<"B","i","o">>, <<"P","c","t","2">>, <<"A","r","t">>,
       <<"P","c","t","3">> >>

HeaderPercent ==
    << <<"N","a","m","e">>, <<"C","h","e","m">>, <<"C","h","e","m"," ","%">>,
       <<"B","i","o">>, <<"P","E","R","C","E","N","T">>, <<"A","r","t">>,
       <<"P","e","r","c","e","n","t","a","g","e">> >>

StudentNames == {"Ann", "Bob"}

\* cells of one subject column and its percentage column
PairPool ==
    { <<Num(7), Num(40)>>, <<Num(7), Num(90)>>, <<Num(7), Null>>,
      <<Null, Num(40)>>, <<Num(7), Str("abc")>>, <<Null, Str("abc")>> }

RECURSIVE RowPool(_)
\* rows of a table of a name column and `pairs` pairs of columns: a name,
\* then the cells of each pair
RowPool(pairs) ==
    IF pairs = 0
    THEN {<<Str(n)>> : n \in StudentNames}
    ELSE {r \o p : r \in RowPool(pairs - 1), p \in PairPool}

\* a row with every cell filled
FullRow(c) == [i \in 1..c |-> IF i = 1 THEN Str("Ann") ELSE Num(90)]

Headers == {HeaderPlain, HeaderPercent}

MaxWidth == Min(MaxCols, Len(HeaderPlain))

\* a table of any width whose rows are full
FullTable(header, c, n) ==
    [columns |-> SubSeq(header, 1, c), rows |-> [i \in 1..n |-> FullRow(c)]]

\* a table of a name column and pairs of columns, its rows from the pool
PairedTable(pairs, rows) ==
    [columns |-> SubSeq(HeaderPlain, 1, 1 + 2 * pairs), rows |-> rows]

\* a parsed table with no column has no row; names matter up to renaming,
\* so the first row is Ann's
InitTable ==
    \/ \E header \in Headers : \E c \in 0..MaxWidth :
           \E n \in 0..(IF c = 0 THEN 0 ELSE MaxRows) :
               df = FullTable(header, c, n)
    \/ \E pairs \in 0..((MaxWidth - 1) \div 2) : \E n \in 1..MaxRows :
           \E rows \in [1..n -> RowPool(pairs)] :
               /\ rows[1][1] = Str("Ann")
               /\ df = PairedTable(pairs, rows)

---------------------------------------------------------------------------
(* The script run *)

NotReturned == [valid |-> FALSE, charts |-> <<>>, student_summaries |-> <<>>]

Init ==
    /\ InitTable
    /\ pc = "start"
    /\ errors = <<>>
    /\ data_format = NoFormat
    /\ rowIdx = 0
    /\ charts = <<>>
    /\ student_summaries = <<>>
    /\ returned = NotReturned
    /\ out = <<>>
    /\ shown = <<>>
    /\ summary_data = <<>>
    /\ calls = 0
    /\ first = NotReturned

\* errors, data_format = validate_data(df); `if errors:` shows them
Validate ==
    /\ pc = "start"
    /\ LET v == validate_data(df)
       IN  /\ errors' = v.errors
           /\ data_format' = v.data_format
           /\ out' = IF v.errors # <<>> THEN Append(out, "issues") ELSE out
           /\ pc' = IF v.errors # <<>> /\ v.data_format = NoFormat
                    THEN "select"
                    ELSE IF v.data_format # NoFormat THEN "generate" ELSE "end"
    /\ UNCHANGED <<df, rowIdx, charts, student_summaries, returned, shown,
                   summary_data, calls, first>>

\* the column selection widgets; each selectbox yields an option the user
\* chose
ManualSelect ==
    /\ pc = "select"
    /\ IF df.columns = <<>>
       THEN \* no option to select: student_col is None, no pair is offered
            /\ pc' = "end"
            /\ UNCHANGED <<data_format, out>>
       ELSE \E student_col \in SeqToSet(df.columns) :
            LET potential_columns == Without(df.columns, student_col)
                n      == Len(potential_columns)
                slots  == ManualPairSlots(n)
                picks  == {p \in SeqToSet(potential_columns)
                                 \X SeqToSet(potential_columns) : p[1] # p[2]}
            IN  IF \E i \in slots : ~SelectboxIndexValid(i, n)
                THEN /\ pc' = "end"
                     /\ out' = Append(out, "exception")
                     /\ UNCHANGED data_format
                ELSE \E choice \in [1..Cardinality(slots) -> picks] :
                     LET subject_percentage_pairs ==
                             [j \in 1..Cardinality(slots) |->
                                 [subject_col    |-> choice[j][1],
                                  percentage_col |-> choice[j][2],
                                  is_pct         |-> TRUE]]
                     IN  IF subject_percentage_pairs # <<>>
                         THEN /\ data_format' = PairedFormat(student_col,
                                                    subject_percentage_pairs)
                              /\ pc' = "generate"
                              /\ UNCHANGED out
                         ELSE /\ pc' = "end"
                              /\ UNCHANGED <<data_format, out>>
    /\ UNCHANGED <<df, errors, rowIdx, charts, student_summaries, returned,
                   shown, summary_data, calls, first>>

\* an entry that keeps the lists of the invocation before
EnterAggregationKeep ==
    /\ pc = "generate"
    /\ pc' = "rows"
    /\ out' = Append(out, "generating")
    /\ rowIdx' = 0
    /\ calls' = calls + 1
    /\ UNCHANGED <<df, errors, data_format, charts, student_summaries,
                   returned, shown, summary_data, first>>

\* entry of process_data_and_create_charts: charts = [], student_summaries = {}
EnterAggregation ==
    /\ pc = "generate"
    /\ pc' = "rows"
    /\ out' = Append(out, "generating")
    /\ charts' = <<>>
    /\ student_summaries' = <<>>
    /\ rowIdx' = 0
    /\ calls' = calls + 1
    /\ UNCHANGED <<df, errors, data_format, returned, shown, summary_data, first>>

\* one iteration of `for _, row in df.iterrows()`
ProcessRow ==
    /\ pc = "rows"
    /\ rowIdx < Len(df.rows)
    /\ LET row          == df.rows[rowIdx + 1]
           student_name == RowGet(df.columns, row, data_format.student_col)
           pairs        == data_format.subject_percentage_pairs
           lists        == ExtractPairs(df.columns, row, pairs, Len(pairs))
       IN  IF lists.raised
           THEN \* ValueError reaches `except Exception` of the main logic
                /\ pc' = "end"
                /\ out' = Append(out, "exception")
                /\ UNCHANGED <<rowIdx, charts, student_summaries>>
           ELSE IF SkipRow(lists.subjects)
           THEN \* `continue`
                /\ rowIdx' = rowIdx + 1
                /\ UNCHANGED <<pc, out, charts, student_summaries>>
           ELSE LET summary   == ComputeSummary(lists.subjects, lists.scores)
                    summaries == DictSet(student_summaries, student_name, summary)
                IN  /\ student_summaries' = summaries
                    /\ charts' = EmitChart(charts,
                           [student  |-> student_name,
                            subjects |-> lists.subjects,
                            scores   |-> lists.scores,
                            summary  |-> DictGet(summaries, student_name)])
                    /\ rowIdx' = rowIdx + 1
                    /\ UNCHANGED <<pc, out>>
    /\ UNCHANGED <<df, errors, data_format, returned, shown, summary_data,
                   calls, first>>

\* `return charts, student_summaries`
ReturnCharts ==
    /\ pc = "rows"
    /\ rowIdx = Len(df.rows)
    /\ returned' = [valid |-> TRUE, charts |-> charts,
                    student_summaries |-> student_summaries]
    /\ pc' = "display"
    /\ UNCHANGED <<df, errors, data_format, rowIdx, charts, student_summaries,
                   out, shown, summary_data, calls, first>>

\* `if charts:` ... `else: st.error("No charts could be generated ...")`
Display ==
    /\ pc = "display"
    /\ IF HasCharts(returned.charts)
       THEN \E show_summary_table \in BOOLEAN :
            /\ out' = out \o <<"success", "downloads">>
                          \o (IF show_summary_table THEN <<"summary">> ELSE <<>>)
            /\ summary_data' =
                   IF show_summary_table
                   THEN [i \in 1..Len(returned.student_summaries) |->
                            [Student |-> returned.student_summaries[i].key,
                             NumberOfSubjects |->
                                 returned.student_summaries[i].value.num_subjects]]
                   ELSE <<>>
            /\ shown' = returned.charts
       ELSE /\ out' = Append(out, "no_charts")
            /\ UNCHANGED <<summary_data, shown>>
    /\ pc' = "end"
    /\ UNCHANGED <<df, errors, data_format, rowIdx, charts, student_summaries,
                   returned, calls, first>>

\* the aggregation is invoked once more on the same table and mapping
CallAgain ==
    /\ pc = "display"
    /\ calls = 1
    /\ first' = returned
    /\ returned' = NotReturned
    /\ pc' = "generate"
    /\ UNCHANGED <<df, errors, data_format, rowIdx, charts, student_summaries,
                   out, shown, summary_data, calls>>

Next ==
    \/ Validate
    \/ ManualSelect
    \/ EnterAggregation
    \/ ProcessRow
    \/ ReturnCharts
    \/ Display

Spec == Init /\ [][Next]_vars

NextTwice ==
    \/ Next
    \/ CallAgain

\* the run, with the aggregation applied twice to its inputs
SpecTwice == Init /\ [][NextTwice]_vars


---------------------------------------------------------------------------
(* What the table and the mapping say, for the properties below *)

Pairs == data_format.subject_percentage_pairs

NumRows == Len(df.rows)

\* the cell of row r in the column named col
Cell(r, col) ==
    df.rows[r][CHOOSE i \in 1..Len(df.columns) : df.columns[i] = col]

\* both cells of pair j are non-null in row r
PairPresent(r, j) ==
    /\ Cell(r, Pairs[j].subject_col).kind # "null"
    /\ Cell(r, Pairs[j].percentage_col).kind # "null"

\* the pairs among the first k that are present in row r, in mapping order
PresentPairs(r, k) ==
    SelectSeq([j \in 1..k |-> j], LAMBDA j : PairPresent(r, j))

ExpectedSubjects(r, k) ==
    [i \in 1..Len(PresentPairs(r, k)) |-> Pairs[PresentPairs(r, k)[i]].subject_col]

ExpectedScores(r, k) ==
    [i \in 1..Len(PresentPairs(r, k)) |->
        Cell(r, Pairs[PresentPairs(r, k)[i]].percentage_col).num]

\* row r has a pair with both cells non-null
RowEmits(r) == \E j \in 1..Len(Pairs) : PairPresent(r, j)

\* the rows among the first n that have such a pair
EmittingRows(n) == {r \in 1..n : RowEmits(r)}

\* the i-th row, in table order, that has such a pair
RowOfRecord(i) ==
    CHOOSE r \in 1..NumRows : RowEmits(r) /\ Cardinality(EmittingRows(r)) = i

\* row r has a present pair whose percentage cell is no number
NonNumericIn(r) ==
    \E j \in 1..Len(Pairs) :
        PairPresent(r, j) /\ Cell(r, Pairs[j].percentage_col).kind = "str"

HasNonNumeric == \E r \in 1..NumRows : NonNumericIn(r)

RECURSIVE SumTo(_, _)
\* scores[1] + ... + scores[n]
SumTo(scores, n) == IF n = 0 THEN 0 ELSE SumTo(scores, n - 1) + scores[n]

SeqHas(seq, x) == \E i \in 1..Len(seq) : seq[i] = x

\* record i of a chart list is derived from the i-th row that has a pair
DerivedInOrder(chart_list) ==
    /\ Len(chart_list) <= Cardinality(EmittingRows(NumRows))
    /\ \A i \in 1..Len(chart_list) :
          LET r == RowOfRecord(i)
          IN  /\ chart_list[i].student = Cell(r, data_format.student_col)
              /\ chart_list[i].subjects = ExpectedSubjects(r, Len(Pairs))
              /\ chart_list[i].scores = ExpectedScores(r, Len(Pairs))

\* the statistics of a record are those of its scores
StatisticsOf(chart) ==
    LET n == Len(chart.scores)
        s == chart.summary
    IN  /\ n > 0
        /\ s.total_achieved = SumTo(chart.scores, n)
        /\ s.total_possible = 100 * n
        /\ s.total_possible > 0
        /\ s.num_subjects = n
        /\ s.average.den > 0
        /\ s.average.num * n = SumTo(chart.scores, n) * s.average.den
        /\ s.total_percentage.den > 0
        /\ s.total_percentage.num * s.total_possible
              = s.total_achieved * 100 * s.total_percentage.den

---------------------------------------------------------------------------
(* Properties *)

\* C1: for a table with at least one row, a student column and k >= 2
\* trailing columns, validate_data succeeds with floor(k/2) pairs, pair j
\* being trailing columns 2j-1 and 2j; with k odd the last column is in no
\* pair; the header text plays no part.
C1_PairsInColumnOrder ==
    (pc # "start" /\ NumRows >= 1 /\ Len(df.columns) >= 3) =>
        LET k == Len(df.columns) - 1
        IN  /\ errors = <<>>
            /\ data_format.format = "paired"
            /\ data_format.student_col = df.columns[1]
            /\ Len(Pairs) = k \div 2
            /\ \A j \in 1..Len(Pairs) :
                  /\ Pairs[j].subject_col = df.columns[1 + (2 * j - 1)]
                  /\ Pairs[j].percentage_col = df.columns[1 + 2 * j]
            /\ k % 2 = 1 =>
                  \A j \in 1..Len(Pairs) :
                      /\ Pairs[j].subject_col # df.columns[Len(df.columns)]
                      /\ Pairs[j].percentage_col # df.columns[Len(df.columns)]

\* three trailing columns, none named like a percentage: one pair
C1_Witness ==
    /\ pc # "start"
    /\ NumRows >= 1
    /\ Len(df.columns) = 4
    /\ Len(Pairs) = 1
    /\ ~Pairs[1].is_pct

\* C2: a table with zero rows fails with EmptyTable alone, whatever its
\* column count; a table with a row and fewer than 3 columns fails with
\* InsufficientColumns alone; validate_data returns no mapping in either
\* case.
C2_EarlyRejection ==
    /\ (pc # "start" /\ NumRows = 0) => errors = <<"EmptyTable">>
    /\ (pc # "start" /\ NumRows >= 1 /\ Len(df.columns) < 3) =>
           errors = <<"InsufficientColumns">>
    /\ pc = "select" => data_format = NoFormat

\* a table with no row and two columns reports EmptyTable
C2_Witness ==
    /\ pc = "select"
    /\ NumRows = 0
    /\ Len(df.columns) = 2
    /\ errors = <<"EmptyTable">>

C4_EmptyRowsSkipped ==
    /\ Len(charts) = Cardinality(EmittingRows(rowIdx))
    /\ \A i \in 1..Len(charts) : charts[i].subjects # <<>>
    /\ {student_summaries[i].key : i \in 1..Len(student_summaries)}
          = {Cell(r, data_format.student_col) : r \in EmittingRows(rowIdx)}
    /\ returned.valid =>
          /\ Len(returned.charts) = Cardinality(EmittingRows(NumRows))
          /\ \A i \in 1..Len(returned.charts) : returned.charts[i].subjects # <<>>
    /\ shown \in {<<>>, returned.charts}

\* of two rows the first has no pair and the second has one
C4_Witness ==
    /\ returned.valid
    /\ NumRows = 2
    /\ ~RowEmits(1)
    /\ Len(returned.charts) = 1

\* C5: the statistics of every record are computed from its scores: the sum,
\* the mean, 100 per score, the sum over the possible total times 100, the
\* count; no record takes a zero fallback.
C5_Statistics ==
    /\ \A i \in 1..Len(charts) : StatisticsOf(charts[i])
    /\ \A i \in 1..Len(returned.charts) : StatisticsOf(returned.charts[i])
    /\ \A i \in 1..Len(returned.student_summaries) :
          returned.student_summaries[i].value.num_subjects > 0

\* a record of scores 40 and 90: mean 65, 130 of 200, 65 percent
C5_Witness ==
    \E i \in 1..Len(returned.charts) :
        /\ returned.charts[i].scores = <<40, 90>>
        /\ returned.charts[i].summary.average = [num |-> 65, den |-> 1]
        /\ returned.charts[i].summary.total_achieved = 130
        /\ returned.charts[i].summary.total_percentage = [num |-> 65, den |-> 1]

\* C6: the records are in the order of the rows they are derived from:
\* record i comes from the i-th row, in table order, that has a pair with
\* both cells non-null.
C6_RowOrder ==
    data_format.format = "paired" =>
        /\ DerivedInOrder(charts)
        /\ DerivedInOrder(returned.charts)
        /\ returned.valid =>
              Len(returned.charts) = Cardinality(EmittingRows(NumRows))

\* two students with different scores, in table order
C6_Witness ==
    /\ returned.valid
    /\ Len(returned.charts) = 2
    /\ returned.charts[1].student = Str("Ann")
    /\ returned.charts[2].student = Str("Bob")
    /\ returned.charts[1].scores # returned.charts[2].scores

\* C7: rows of the same name are not merged: every row that has a pair has
\* its own record with its own statistics in the chart list, in the
\* summaries the aggregation returns, and in the overall summary.
C7_DuplicatesNotMerged ==
    /\ returned.valid =>
          /\ Len(returned.charts) = Cardinality(EmittingRows(NumRows))
          /\ Len(returned.student_summaries) = Len(returned.charts)
          /\ \A i \in 1..Len(returned.charts) :
                \E e \in 1..Len(returned.student_summaries) :
                    /\ returned.student_summaries[e].key = returned.charts[i].student
                    /\ returned.student_summaries[e].value = returned.charts[i].summary
    /\ SeqHas(out, "summary") => Len(summary_data) = Len(shown)

\* C8: a present pair with a non-numeric percentage fails the whole run:
\* nothing is returned or displayed, the records of earlier rows included,
\* and the run ends with the one error of the exception handler.
C8_NonNumericAborts ==
    (data_format.format = "paired" /\ HasNonNumeric) =>
        /\ returned = NotReturned
        /\ shown = <<>>
        /\ summary_data = <<>>
        /\ pc # "display"
        /\ ~SeqHas(out, "success")
        /\ pc = "end" =>
              SelectSeq(out, LAMBDA m : m \in {"issues", "no_charts", "exception"})
                  = <<"exception">>

\* the run has ended on the second row, the first row's record dropped
C8_Witness ==
    /\ pc = "end"
    /\ data_format.format = "paired"
    /\ NumRows = 2
    /\ NonNumericIn(2)
    /\ Len(charts) = 1
    /\ SeqHas(out, "exception")

\* C9: with a mapping and every row skipped the run ends in the no-charts
\* report: no record, no success message, no download, no summary, and not
\* the exception handler.
C9_NoRecordsProduced ==
    (pc = "end" /\ data_format.format = "paired"
        /\ \A r \in 1..NumRows : ~RowEmits(r)) =>
        /\ returned.valid
        /\ returned.charts = <<>>
        /\ shown = <<>>
        /\ summary_data = <<>>
        /\ SeqHas(out, "no_charts")
        /\ ~SeqHas(out, "success")
        /\ ~SeqHas(out, "downloads")
        /\ ~SeqHas(out, "summary")
        /\ ~SeqHas(out, "exception")

\* a detected mapping and rows whose pairs all have a null cell
C9_Witness ==
    /\ pc = "end"
    /\ errors = <<>>
    /\ data_format.format = "paired"
    /\ NumRows = 2
    /\ \A r \in 1..NumRows : ~RowEmits(r)
    /\ SeqHas(out, "no_charts")

\* a step of the aggregation leaves the table and the mapping as they are
InputsKept ==
    pc \in {"generate", "rows"} => (df' = df /\ data_format' = data_format)

\* C10: the aggregation applied twice to a table and a mapping returns the
\* same records and summaries, and while it runs it changes neither the
\* table nor the mapping.
C10_Idempotent ==
    /\ []((calls = 2 /\ returned.valid) => returned = first)
    /\ [][InputsKept]_vars

\* the second invocation has returned two records
C10_Witness ==
    /\ calls = 2
    /\ returned.valid
    /\ Len(returned.charts) = 2

\* the columns of the table, as a set of names
ColumnNames == {df.columns[i] : i \in 1..Len(df.columns)}

\* the mapping in use has a pair, and each pair names two different
\* columns of the table, neither of them the student column
MappingValid ==
    /\ data_format.format = "paired"
    /\ data_format.student_col \in ColumnNames
    /\ Pairs # <<>>
    /\ \A j \in 1..Len(Pairs) :
          /\ Pairs[j].subject_col \in ColumnNames
          /\ Pairs[j].percentage_col \in ColumnNames
          /\ Pairs[j].subject_col # Pairs[j].percentage_col
          /\ Pairs[j].subject_col # data_format.student_col
          /\ Pairs[j].percentage_col # data_format.student_col

\* C11: the aggregation is entered only with a mapping, detected or built by
\* the manual selection, that has at least one pair, each pair naming two
\* different existing columns, neither of them the student column.
C11_MappingValid ==
    (pc \in {"generate", "rows", "display"} \/ calls >= 1) => MappingValid

\* a manually built mapping whose student column is not the first column
\* has reached the aggregation
C11_Witness ==
    /\ pc = "rows"
    /\ errors # <<>>
    /\ Pairs # <<>>
    /\ data_format.student_col # df.columns[1]

===========================================================================
